---- MODULE Spec2Model ----
(***************************************************************************)
(* Model of the property-management HTTP service (src/index.js): the       *)
(* Express route handlers, createPropertyWithRetry and the 'properties'    *)
(* collection they act on through the Mongoose model Property.             *)
(*                                                                         *)
(* JavaScript objects (request bodies, documents, errors) are functions    *)
(* from their own property names to values; a property that is not set is  *)
(* not in the DOMAIN.  Each request is served by one task; a task is       *)
(* suspended only at an await of a store call, so every store call is one  *)
(* atomic step and a create request takes one step per loop iteration.     *)
(***************************************************************************)
EXTENDS Integers, Sequences, FiniteSets, TLC

\* ---------------------------------------------------------------- bounds

\* number of concurrently served requests
NumTasks == 1
\* number of distinct values the entropy source is sampled at
NumSeeds == 1

\* ------------------------------------------------------------ constants

MAX_RETRIES == 3
\* MongoDB's duplicate-key error code tested by createPropertyWithRetry
DUPLICATE_KEY == 11000
\* crypto.randomBytes(16)
ID_BYTES == 16

Tasks == 1..NumTasks
Seeds == 0..(NumSeeds - 1)

\* the JSON value null
Null == "<null>"
EmptyObject == [k \in {} |-> TRUE]

\* ------------------------------------------------------------ generateId

HexDigits ==
    <<"0", "1", "2", "3", "4", "5", "6", "7",
      "8", "9", "a", "b", "c", "d", "e", "f">>

\* the 16 bytes the entropy source yields when sampled at seed
randomBytes(n, seed) == [i \in 1..n |-> (seed * 97 + i * 31) % 256]

\* Buffer.toString('hex'): two lowercase hex digits per byte
RECURSIVE toStringHex(_)
toStringHex(bytes) ==
    IF bytes = <<>> THEN <<>>
    ELSE <<HexDigits[(Head(bytes) \div 16) + 1], HexDigits[(Head(bytes) % 16) + 1]>>
         \o toStringHex(Tail(bytes))

generateId(seed) == toStringHex(randomBytes(ID_BYTES, seed))

\* the ids the generator can return, by sample of the entropy source
IdOfSeed == [s \in Seeds |-> generateId(s)]
GeneratedIds == {IdOfSeed[s] : s \in Seeds}
\* an _id chosen by a client and sent in a request body
ClientId == <<"m", "y", "-", "i", "d">>
Ids == GeneratedIds \cup {ClientId}

\* ------------------------------------------------------- request inputs

\* bodies of POST /properties
CreateBodies ==
    {"address" :> "A1",
     "group" :> Null @@ "address" :> "A1",
     "group" :> "Pending" @@ "address" :> "A1",
     "group" :> "__proto__" @@ "address" :> "A1",
     "_id" :> ClientId @@ "group" :> "Pending" @@ "address" :> "A1"}

\* bodies of PUT /properties/:id
UpdateBodies ==
    {EmptyObject,
     "address" :> "A2",
     "group" :> Null,
     "group" :> "Exited" @@ "address" :> "A2",
     "_id" :> ClientId @@ "group" :> "Exited"}

\* ---------------------------------------------------------------- errors

\* a failure of the storage layer other than a duplicate key; a driver
\* error may carry a numeric code (91 = ShutdownInProgress) or none
StoreErrors ==
    {[message |-> "connection lost"],
     [message |-> "shutdown in progress", code |-> 91]}

DuplicateKeyError == [message |-> "E11000 duplicate key error", code |-> DUPLICATE_KEY]
ValidationError == [message |-> "Property validation failed"]
CreationExhausted == [message |-> "Failed to create property after retries"]

\* what the storage layer does with one call: serve it or fail
Faults == {EmptyObject} \cup {"error" :> e : e \in StoreErrors}

\* ------------------------------------------------------ Property (model)

SchemaPaths == {"_id", "group", "address"}

\* new Property(obj): strict mode keeps the schema's paths only
Cast(obj) == [k \in DOMAIN obj \cap SchemaPaths |-> obj[k]]

\* group: { type: String, required: true }
GroupRequiredOk(doc) == "group" \in DOMAIN doc /\ doc.group # Null /\ doc.group # ""

\* the unique index on _id: the atomic check of insertOne
IdTaken(coll, id) == \E d \in coll : d._id = id

\* Property.create(obj) on collection coll under fault:
\* validate, then insert unless the _id is taken
PropertyCreate(coll, obj, fault) ==
    LET doc == Cast(obj) IN
    IF ~GroupRequiredOk(doc) THEN [error |-> ValidationError, coll |-> coll]
    ELSE IF "error" \in DOMAIN fault THEN [error |-> fault.error, coll |-> coll]
    ELSE IF IdTaken(coll, doc._id) THEN [error |-> DuplicateKeyError, coll |-> coll]
    ELSE [doc |-> doc, coll |-> coll \cup {doc}]

\* ------------------------------------------------------------------ state

VARIABLES
    store,   \* the 'properties' collection: a set of documents
    task,    \* per create request being served: where its loop stands
    last,    \* the step taken last, when it is a watched one: request
             \* and response
    watch    \* what is recorded in last: the steps of the handlers named,
             \* and with "error" the failed steps of all handlers

vars == <<store, task, last, watch>>

Idle == [pc |-> "idle", body |-> EmptyObject, attempt |-> 0, inserts |-> 0, dups |-> 0]

NoStep ==
    [op |-> "none", task |-> 0, id |-> <<>>, body |-> EmptyObject,
     status |-> 0, kind |-> "none", text |-> "", docs |-> {}, groups |-> EmptyObject,
     attempt |-> 0, inserts |-> 0, dups |-> 0, gen |-> <<>>, cand |-> EmptyObject,
     error |-> EmptyObject]

\* the record of a step: kept when its operation is watched
Record(step) ==
    IF step.op \in watch THEN step
    ELSE IF "error" \in watch /\ step.error # EmptyObject
    THEN \* of a failed step, the handler, the error and the response
         [NoStep EXCEPT !.op = step.op, !.error = step.error, !.status = step.status,
                        !.kind = step.kind, !.text = step.text]
    ELSE NoStep

InitWatching(ops) ==
    /\ store = {}
    /\ task = [t \in Tasks |-> Idle]
    /\ last = NoStep
    /\ watch = ops

\* ------------------------------------------------- createPropertyWithRetry

\* { _id: generateId(), ...propertyData }
NewProperty(gen, propertyData) ==
    [k \in {"_id"} \cup DOMAIN propertyData |->
        IF k \in DOMAIN propertyData THEN propertyData[k] ELSE gen]

\* variant: any error that carries a code is taken for a duplicate key
IsDuplicateAnyCode(error) == "code" \in DOMAIN error

\* error.code !== 11000 is false
IsDuplicate(error) == "code" \in DOMAIN error /\ error.code = DUPLICATE_KEY

\* variant: the loop stops one iteration early
LoopContinuesOneLess(attempt) == attempt < MAX_RETRIES

\* for (let attempt = 1; attempt <= MAX_RETRIES; attempt++)
LoopContinues(attempt) == attempt <= MAX_RETRIES

\* variant: the handler reads error.status instead of error.code
PostErrorStatusFromStatus(error) ==
    IF "status" \in DOMAIN error /\ error.status # 0 THEN error.status ELSE 500

\* res.status(error.code || 500)
PostErrorStatus(error) ==
    IF "code" \in DOMAIN error /\ error.code # 0 THEN error.code ELSE 500

\* variant: the loop goes on after the call's outcome is known
AfterReturnKeepsLooping(t) == task

\* the task after createPropertyWithRetry has returned or thrown
AfterReturn(t) == [task EXCEPT ![t] = Idle]

\* One iteration of the loop of createPropertyWithRetry for task t, and the
\* POST handler's response when the call returns or throws.
Attempt(t, body, attempt, inserts, dups, seed, fault) ==
    LET gen == IdOfSeed[seed]
        cand == NewProperty(gen, body)
        r == PropertyCreate(store, cand, fault)
        step == [NoStep EXCEPT !.op = "POST", !.task = t,
                               !.attempt = attempt, !.inserts = inserts + 1,
                               !.gen = gen, !.cand = cand]
    IN
    /\ store' = r.coll
    /\ UNCHANGED watch
    /\ IF "doc" \in DOMAIN r
       THEN \* return savedProperty; res.status(201).json(savedProperty)
            /\ task' = AfterReturn(t)
            /\ last' = Record([step EXCEPT !.status = 201, !.kind = "json",
                                    !.docs = {r.doc}, !.dups = dups])
       ELSE IF ~IsDuplicate(r.error)
       THEN \* throw error; caught by the handler
            /\ task' = AfterReturn(t)
            /\ last' = Record([step EXCEPT !.status = PostErrorStatus(r.error),
                                    !.kind = "json", !.text = r.error.message,
                                    !.error = r.error, !.dups = dups])
       ELSE IF LoopContinues(attempt + 1)
       THEN \* Duplicate ID detected. Retrying...
            /\ task' = [task EXCEPT ![t] =
                           [pc |-> "retry", body |-> body, attempt |-> attempt + 1,
                            inserts |-> inserts + 1, dups |-> dups + 1]]
            /\ last' = Record([step EXCEPT !.kind = "retry", !.error = r.error,
                                    !.dups = dups + 1])
       ELSE \* throw new Error('Failed to create property after retries')
            /\ task' = AfterReturn(t)
            /\ last' = Record([step EXCEPT !.status = PostErrorStatus(CreationExhausted),
                                    !.kind = "json", !.text = CreationExhausted.message,
                                    !.error = CreationExhausted, !.dups = dups + 1])

\* the entropy source and the storage layer at one store call (a call the
\* storage layer fails does not depend on the id drawn)
Chances == {<<seed, fault>> \in Seeds \X Faults : fault = EmptyObject \/ seed = 0}

\* POST /properties: the handler up to the outcome of the first insert; the
\* request is served by the first free task
PostProperties(t) ==
    /\ task[t].pc = "idle"
    /\ \A u \in Tasks : u < t => task[u].pc # "idle"
    /\ \E body \in CreateBodies, c \in Chances :
          Attempt(t, body, 1, 0, 0, c[1], c[2])

\* a later iteration of the loop, after a duplicate key
RetryCreate(t) ==
    /\ task[t].pc = "retry"
    /\ \E c \in Chances :
          Attempt(t, task[t].body, task[t].attempt, task[t].inserts, task[t].dups,
                  c[1], c[2])

\* ------------------------------------------------------- one-step handlers

\* a handler's catch block: res.status(status).send(text)
Caught(op, status, text, err) ==
    /\ last' = Record([NoStep EXCEPT !.op = op, !.status = status,
                                     !.kind = "send", !.text = text, !.error = err])
    /\ UNCHANGED <<store, task, watch>>

\* Property.find(query): everything, or what the text index matches
Find(coll, query) ==
    IF "$text" \in DOMAIN query THEN SUBSET coll ELSE {coll}

\* GET /api/properties?searchTerm=
GetApiProperties ==
    \/ \E err \in StoreErrors : Caught("LIST", 500, "Error retrieving properties", err)
    \/ \E searchTerm \in {"", "flat"} :
        LET query == IF searchTerm # "" THEN "$text" :> searchTerm ELSE EmptyObject IN
        /\ \E properties \in Find(store, query) :
              last' = Record([NoStep EXCEPT !.op = "LIST", !.status = 200,
                                            !.kind = "json", !.docs = properties])
        /\ UNCHANGED <<store, task, watch>>

\* { $group: { _id: '$group', properties: { $push: '$$ROOT' } } }
\* (a document without the field is grouped under null)
GroupOf(doc) == IF "group" \in DOMAIN doc THEN doc.group ELSE Null

Aggregate(coll) ==
    {[_id |-> g, properties |-> {d \in coll : GroupOf(d) = g}] :
        g \in {GroupOf(d) : d \in coll}}

\* the property key a value is converted to by acc[value]
ToPropertyKey(v) == IF v = Null THEN "null" ELSE v

\* acc[group._id] = group.properties on a plain object: "__proto__" is the
\* accessor of Object.prototype, so assigning an array to it replaces the
\* prototype of acc and creates no own property
Assign(acc, key, value) ==
    IF key = "__proto__" THEN acc
    ELSE [k \in DOMAIN acc \cup {key} |-> IF k = key THEN value ELSE acc[k]]

\* groupedProperties.reduce((acc, group) => ..., {}); res.json serialises
\* the own properties of the result
RECURSIVE Reduce(_, _)
Reduce(groups, acc) ==
    IF groups = {} THEN acc
    ELSE LET g == CHOOSE x \in groups : TRUE
         IN Reduce(groups \ {g}, Assign(acc, ToPropertyKey(g._id), g.properties))

\* GET /properties/groups
GetPropertiesGroups ==
    \/ \E err \in StoreErrors :
          Caught("GROUPS", 500, "Error retrieving grouped properties", err)
    \/ /\ last' = Record([NoStep EXCEPT !.op = "GROUPS", !.status = 200,
                                        !.kind = "json",
                                        !.groups = Reduce(Aggregate(store), EmptyObject)])
       /\ UNCHANGED <<store, task, watch>>

\* Property.findById(id): the documents found (none or one per _id)
FindById(coll, id) == {d \in coll : d._id = id}

\* GET /properties/:id
GetProperty ==
    \/ \E err \in StoreErrors : Caught("GET", 500, "Error retrieving property", err)
    \/ \E id \in Ids :
        LET step == [NoStep EXCEPT !.op = "GET", !.id = id]
            property == FindById(store, id)
        IN
        /\ IF property # {}
           THEN last' = Record([step EXCEPT !.status = 200, !.kind = "json",
                                            !.docs = property])
           ELSE last' = Record([step EXCEPT !.status = 404, !.kind = "send",
                                            !.text = "Property not found"])
        /\ UNCHANGED <<store, task, watch>>

\* variant: the whole request body is written, as in the handler's
\* commented-out predecessor
UpdateOfWholeBody(body) == body

\* const { group } = req.body; the update document { $set: { group } }
UpdateOf(body) == [k \in DOMAIN body \cap {"group"} |-> body[k]]

\* How Mongoose casts { $set: { group: undefined } } depends on its version,
\* which the repository does not pin: the key is dropped (6 and later) or
\* written as null (5).
SetVariants(update) ==
    IF "group" \in DOMAIN update THEN {update} ELSE {update, "group" :> Null}

\* Property.findByIdAndUpdate(id, { $set }, { new: true }): no validators run
FindByIdAndUpdate(coll, id, set) ==
    {IF d._id = id
     THEN [k \in DOMAIN d \cup DOMAIN set |-> IF k \in DOMAIN set THEN set[k] ELSE d[k]]
     ELSE d : d \in coll}

\* PUT /properties/:id
PutProperty ==
    \/ \E err \in StoreErrors : Caught("PUT", 400, "Error updating property", err)
    \/ \E id \in Ids, body \in UpdateBodies :
        \E set \in SetVariants(UpdateOf(body)) :
            LET step == [NoStep EXCEPT !.op = "PUT", !.id = id, !.body = body]
                coll == FindByIdAndUpdate(store, id, set)
                updatedProperty == FindById(coll, id)
            IN
            /\ store' = coll
            /\ IF updatedProperty # {}
               THEN last' = Record([step EXCEPT !.status = 200, !.kind = "json",
                                                !.docs = updatedProperty])
               ELSE last' = Record([step EXCEPT !.status = 404, !.kind = "send",
                                                !.text = "Property not found"])
            /\ UNCHANGED <<task, watch>>

\* variant: the filter is inverted
FindByIdAndDeleteOthers(coll, id) == {d \in coll : d._id = id}

\* Property.findByIdAndDelete(id)
FindByIdAndDelete(coll, id) == {d \in coll : d._id # id}

\* DELETE /api/properties/:id
DeleteProperty ==
    \/ \E err \in StoreErrors : Caught("DELETE", 500, "Error deleting property", err)
    \/ \E id \in Ids :
        LET step == [NoStep EXCEPT !.op = "DELETE", !.id = id]
            deletedProperty == FindById(store, id)
        IN
        /\ store' = FindByIdAndDelete(store, id)
        /\ IF deletedProperty # {}
           THEN last' = Record([step EXCEPT !.status = 200, !.kind = "json",
                                            !.text = "Property deleted successfully"])
           ELSE last' = Record([step EXCEPT !.status = 404, !.kind = "json",
                                            !.text = "Property not found"])
        /\ UNCHANGED <<task, watch>>

Next ==
    \/ \E t \in Tasks : PostProperties(t)
    \/ \E t \in Tasks : RetryCreate(t)
    \/ GetApiProperties
    \/ GetPropertiesGroups
    \/ GetProperty
    \/ PutProperty
    \/ DeleteProperty

Init == InitWatching({})
Spec == Init /\ [][Next]_vars

SpecPost == InitWatching({"POST"}) /\ [][Next]_vars
SpecPut == InitWatching({"PUT"}) /\ [][Next]_vars
SpecDelete == InitWatching({"DELETE"}) /\ [][Next]_vars
SpecGroups == InitWatching({"GROUPS"}) /\ [][Next]_vars
SpecErrors == InitWatching({"error"}) /\ [][Next]_vars

\* ------------------------------------------------------------ properties

HexChars == {HexDigits[i] : i \in 1..16}
IsHex32(id) == Len(id) = 32 /\ \A i \in 1..Len(id) : id[i] \in HexChars

WithId(coll, id) == {d \in coll : d._id = id}
Others(coll, id) == {d \in coll : d._id # id}
UniqueIds(coll) == \A d1, d2 \in coll : d1._id = d2._id => d1 = d2

\* C1: a createPropertyWithRetry call whose every insert met a duplicate key
\* is still running while it has made fewer than 3 inserts, and after its
\* 3rd insert it has failed with the 'Failed to create property after
\* retries' error (which is not the store's duplicate-key error) and makes
\* no further insert.
C1_ExhaustedAfterThreeDuplicates ==
    (last.op = "POST" /\ last.dups = last.inserts) =>
        IF last.inserts < 3
        THEN last.status = 0 /\ last.kind = "retry" /\ task[last.task].pc = "retry"
        ELSE /\ last.inserts = 3
             /\ last.error = CreationExhausted
             /\ last.text = CreationExhausted.message
             /\ last.text # DuplicateKeyError.message
             /\ ~IsDuplicate(last.error)
             /\ last.status # 0
             /\ task[last.task] = Idle

C1_Witness ==
    last.op = "POST" /\ last.error = CreationExhausted /\ last.inserts = 3 /\ last.dups = 3

\* C2: a createPropertyWithRetry call that succeeds after k = 1 or 2
\* duplicate keys returns the stored record of its candidate k+1, surfaces no
\* error, has made exactly k+1 inserts and makes no further one.
C2_SuccessAfterDuplicates ==
    (last.op = "POST" /\ last.status = 201 /\ last.dups \in {1, 2}) =>
        /\ last.docs = {Cast(last.cand)}
        /\ last.docs \subseteq store
        /\ last.error = EmptyObject /\ last.text = ""
        /\ last.attempt = last.dups + 1
        /\ last.inserts = last.dups + 1
        /\ task[last.task] = Idle

C2_Witness ==
    last.op = "POST" /\ last.status = 201 /\ last.dups = 2 /\ last.inserts = 3

\* C3: when an insert of createPropertyWithRetry fails with anything but a
\* duplicate key, on any attempt, the call ends at once with that very error
\* and makes no further insert: the inserts made are the duplicates before it
\* plus this one (exactly 1 when it is the first attempt).
C3_OtherErrorsPropagate ==
    (last.op = "POST" /\ last.error \notin {EmptyObject, DuplicateKeyError, CreationExhausted}) =>
        /\ last.status # 0 /\ last.kind = "json"
        /\ last.text = last.error.message
        /\ last.inserts = last.attempt
        /\ last.dups = last.attempt - 1
        /\ (last.attempt = 1 => last.inserts = 1)
        /\ task[last.task] = Idle

C3_Witness ==
    last.op = "POST" /\ last.error \in StoreErrors /\ last.attempt = 2 /\ last.status # 0

\* C4: on every successful create the stored and returned record's id is the
\* id generateId produced for that attempt, a 32-character hexadecimal
\* string that was not in the store before, whatever the body carries; and
\* every attempt's candidate carries the id generated for that attempt.
C4_FreshGeneratedId ==
    [][last'.op = "POST" =>
          /\ last'.cand._id = last'.gen
          /\ last'.status = 201 =>
                \A d \in last'.docs :
                    /\ d._id = last'.gen
                    /\ IsHex32(d._id)
                    /\ ~IdTaken(store, d._id)
                    /\ d \in store']_vars

\* C5: a PUT /properties/:id that finds the record changes nothing but that
\* record's group: its id and other fields are as before, whatever else the
\* body carries, and every other record is unchanged.
C5_PutChangesOnlyGroup ==
    [][(last'.op = "PUT" /\ last'.status = 200) =>
          /\ Others(store', last'.id) = Others(store, last'.id)
          /\ Cardinality(WithId(store', last'.id)) = 1
          /\ \E old \in WithId(store, last'.id) :
                \A new \in WithId(store', last'.id) :
                    /\ DOMAIN new = DOMAIN old
                    /\ \A k \in DOMAIN old \ {"group"} : new[k] = old[k]]_vars

C5_Witness ==
    /\ last.op = "PUT" /\ last.status = 200
    /\ "address" \in DOMAIN last.body
    /\ \E d \in last.docs : d.group = "Exited" /\ d.address = "A1"
    /\ Cardinality(store) >= 2

\* C6: every stored record has a group, in every state reachable by create,
\* update and delete requests from the empty collection.
C6_GroupAlwaysPresent ==
    \A d \in store : "group" \in DOMAIN d /\ d.group # Null

\* C7: DELETE /api/properties/:id on an id that is not in the collection
\* answers 404 with {"message": "Property not found"} and leaves the
\* collection as it was; on an id that is present it answers 200 and removes
\* that one record and no other.
C7_DeleteExactlyOne ==
    [][(last'.op = "DELETE" /\ last'.error = EmptyObject) =>
          IF IdTaken(store, last'.id)
          THEN /\ last'.status = 200
               /\ store' = Others(store, last'.id)
               /\ Cardinality(store \ store') = 1
          ELSE /\ last'.status = 404
               /\ last'.kind = "json" /\ last'.text = "Property not found"
               /\ store' = store]_vars

C7_Witness ==
    last.op = "DELETE" /\ last.status = 404 /\ store # {}

C9_EveryRecordInItsBucket ==
    (last.op = "GROUPS" /\ last.status = 200) =>
        /\ \A d \in store :
              /\ ToPropertyKey(GroupOf(d)) \in DOMAIN last.groups
              /\ \A key \in DOMAIN last.groups :
                    d \in last.groups[key] <=> key = ToPropertyKey(GroupOf(d))
        /\ \A key \in DOMAIN last.groups : last.groups[key] \subseteq store

\* C10: under every interleaving of create requests no two records share an
\* id, no stored record is replaced, and a request that met a duplicate key
\* goes on with a candidate carrying a newly generated id.
C10_RacingCreates ==
    [][/\ UniqueIds(store')
       /\ last'.op = "POST" =>
             /\ store \subseteq store'
             /\ last'.attempt > 1 => last'.cand._id = last'.gen]_vars

====
